---- MODULE Spec2Model ----
(***************************************************************************)
(* Verification model of the yt_bulk_cc bulk caption downloader:           *)
(* the statistics engine and self-describing headers (utils.py, header.py),*)
(* the per-item download worker (core.py grab) with its shared ban set,    *)
(* and the scheduler / concatenation engine of cli.py _main.               *)
(*                                                                         *)
(* Text is a sequence of one-character strings.  The three non-ASCII       *)
(* characters the program emits are written "MIDDOT", "EMDASH" and "BOXH"; *)
(* each is one element, hence one code point.                              *)
(***************************************************************************)
EXTENDS Integers, Sequences, FiniteSets, TLC

\* ------------------------------------------------------------------ bounds
NumItems == 3          \* enumerated items (videos) of a concatenating run
GrabItems == 2         \* enumerated items of a run with failing fetches
PoolSize == 2          \* endpoints the public pool can supply
MaxJobs == 2           \* largest --jobs value explored
MaxCues == 1           \* longest transcript of the document inputs
ShortTries == 2        \* attempt budget of the runs with several items
MaxCalls == 6          \* network calls of a run: items times attempt budget

\* -------------------------------------------------------- program constants
HeaderRounds == 10     \* header.py: for _ in range(10)
JsonRounds == 3        \* core.py: for _ in range(3)
MaxSpin == 5           \* core.py: while spin < 5
DefaultTries == 6      \* core.py: tries: int = 6; cli.py: tries=6
SepTitleLen == 50      \* cli.py: t[:50]

\* ---------------- text
Digits == <<"0", "1", "2", "3", "4", "5", "6", "7", "8", "9">>

\* characters matched by \s (the complement of the \S of utils.stats)
WS == {" ", "\n", "\t"}

RECURSIVE Rep(_, _)
\* Python  unit * n
Rep(n, unit) == IF n <= 0 THEN <<>> ELSE unit \o Rep(n - 1, unit)

RECURSIVE Join(_, _)
\* Python  sep.join(parts)
Join(parts, sep) ==
    IF Len(parts) = 0 THEN <<>>
    ELSE IF Len(parts) = 1 THEN parts[1]
    ELSE parts[1] \o sep \o Join(Tail(parts), sep)

RECURSIVE Dec(_)
\* Python  str(n)  for a natural number
Dec(n) == IF n < 10 THEN <<Digits[n + 1]>>
          ELSE Dec(n \div 10) \o <<Digits[(n % 10) + 1]>>

\* a three-digit group of the "," format specification
Pad3(n) == <<Digits[(n \div 100) + 1], Digits[((n \div 10) % 10) + 1], Digits[(n % 10) + 1]>>

RECURSIVE Commas(_)
\* Python  f"{n:,}"
Commas(n) == IF n < 1000 THEN Dec(n)
             ELSE Commas(n \div 1000) \o <<",">> \o Pad3(n % 1000)

\* utils.stats: (words, lines, chars) like wc
stats(txt) ==
    << Cardinality({i \in 1..Len(txt) : txt[i] \notin WS /\ (i = 1 \/ txt[i - 1] \in WS)}),
       Cardinality({i \in 1..Len(txt) : txt[i] = "\n"}),
       Len(txt) >>

\* ------------------------------------------------------------------ header
\* comment prefix of header.py
Pre(fmt) == IF fmt \in {"srt", "webvtt"} THEN <<"N", "O", "T", "E", " ">> ELSE <<"#", " ">>

YoutuBe == <<"h", "t", "t", "p", "s", ":", "/", "/", "y", "o", "u", "t", "u", ".", "b", "e", "/">>

\* header._header_text with the timestamp override ts
HeaderText(fmt, w, l, c, metas, ts) ==
    LET pre == Pre(fmt)
        head == << pre \o <<"s", "t", "a", "t", "s", ":", " ">> \o Commas(w) \o <<" ", "w", "o", "r", "d", "s", " ", "MIDDOT", " ">> \o Commas(l)
                       \o <<" ", "l", "i", "n", "e", "s", " ", "MIDDOT", " ">> \o Commas(c) \o <<" ", "c", "h", "a", "r", "s">>,
                   pre \o <<"g", "e", "n", "e", "r", "a", "t", "e", "d", ":", " ">> \o ts >>
        vids == IF Len(metas) > 0
                THEN << pre \o <<"v", "i", "d", "e", "o", "s", ":">> >> \o
                     [i \in 1..Len(metas) |->
                         pre \o <<" ", " ", "-", " ">> \o YoutuBe \o metas[i][1] \o <<" ", "EMDASH", " ">> \o metas[i][2]]
                ELSE << >>
    IN  Join(head \o vids \o << <<>> >>, <<"\n">>) \o <<"\n">>

RECURSIVE FixupRound(_, _, _, _, _, _)
\* one round of the loop of header._fixup_loop; guess = (w, l, c); the fifth
\* entry of the result counts the rounds the loop ran
FixupRound(body, fmt, metas, ts, guess, round) ==
    LET hdr == HeaderText(fmt, guess[1], guess[2], guess[3], metas, ts)
        h == stats(hdr)
        next == << body[1] + h[1], body[2] + h[2], body[3] + h[3] >>
    IN  IF guess = next THEN << hdr, guess[1], guess[2], guess[3], round >>
        ELSE IF round >= HeaderRounds THEN << hdr, next[1], next[2], next[3], round >>
        ELSE FixupRound(body, fmt, metas, ts, next, round + 1)

\* variant: the first header is returned with the corrected triple
FixupLoopUnchecked(body, fmt, metas, ts) ==
    LET hdr == HeaderText(fmt, body[1], body[2], body[3], metas, ts)
        h == stats(hdr)
    IN  << hdr, body[1] + h[1], body[2] + h[2], body[3] + h[3], 1 >>

\* header._fixup_loop: (header_text, W, L, C); ts is the frozen timestamp
FixupLoop(body, fmt, metas, ts) == FixupRound(body, fmt, metas, ts, body, 1)

\* the auxiliary id/url/title block of header._single_file_header
AuxText(fmt, meta) ==
    Join(<< Pre(fmt) \o <<"v", "i", "d", "e", "o", "-", "i", "d", ":", " ">> \o meta.video_id,
            Pre(fmt) \o <<"u", "r", "l", ":", " ", " ", " ", " ", " ", " ">> \o meta.url,
            Pre(fmt) \o <<"t", "i", "t", "l", "e", ":", " ", " ", " ", " ">> \o meta.title >>, <<"\n">>) \o <<"\n", "\n">>

\* variant: the auxiliary block is left out of the body triple
SingleBodyStatsNoAux(fmt, body_txt, meta) == stats(body_txt)

\* the body triple header._single_file_header hands to _fixup_loop
SingleBodyStats(fmt, body_txt, meta) ==
    LET b == stats(body_txt)
        a == stats(AuxText(fmt, meta))
    IN  << b[1] + a[1], b[2] + a[2], b[3] + a[3] >>

\* header._single_file_header
SingleFileHeader(fmt, body_txt, meta, ts) ==
    FixupLoop(SingleBodyStats(fmt, body_txt, meta), fmt, <<>>, ts)[1]
        \o AuxText(fmt, meta) \o body_txt

\* -------------------------------------------------------------------- JSON
\* json.dumps escaping of one character (ensure_ascii=False)
JsonEscapeChar(ch) ==
    CASE ch = "\"" -> <<"\\", "\"">>
      [] ch = "\\" -> <<"\\", "\\">>
      [] ch = "\n" -> <<"\\", "n">>
      [] ch = "\t" -> <<"\\", "t">>
      [] OTHER -> <<ch>>

RECURSIVE JsonEscape(_)
\* json.dumps escaping of a string body, halving the string to bound the depth
JsonEscape(s) ==
    IF Len(s) = 0 THEN <<>>
    ELSE IF Len(s) = 1 THEN JsonEscapeChar(s[1])
    ELSE JsonEscape(SubSeq(s, 1, Len(s) \div 2))
             \o JsonEscape(SubSeq(s, (Len(s) \div 2) + 1, Len(s)))

JsonStr(s) == <<"\"">> \o JsonEscape(s) \o <<"\"">>

\* repr of a float given in tenths (15 is 1.5)
JsonFloat(tenths) == Dec(tenths \div 10) \o <<".">> \o Dec(tenths % 10)

\* one cue object of json.dumps(indent=2); ind is the indentation of its brace
JsonCue(cue, ind) ==
    ind \o <<"{", "\n">> \o
    ind \o <<" ", " ", "\"", "s", "t", "a", "r", "t", "\"", ":", " ">> \o JsonFloat(cue.start) \o <<",", "\n">> \o
    ind \o <<" ", " ", "\"", "d", "u", "r", "a", "t", "i", "o", "n", "\"", ":", " ">> \o JsonFloat(cue.duration) \o <<",", "\n">> \o
    ind \o <<" ", " ", "\"", "t", "e", "x", "t", "\"", ":", " ">> \o JsonStr(cue.text) \o <<"\n">> \o
    ind \o <<"}">>

\* the cue list; ind is the indentation of the line of its key
JsonTranscript(tr, ind) ==
    IF Len(tr) = 0 THEN <<"[", "]">>
    ELSE <<"[", "\n">> \o Join([i \in 1..Len(tr) |-> JsonCue(tr[i], ind \o <<" ", " ">>)], <<",", "\n">>)
             \o <<"\n">> \o ind \o <<"]">>

NoStats == << >>

\* a {"words", "lines", "chars"} object; ind is the indentation of its key
JsonStatsObj(st, ind) ==
    <<"{", "\n">> \o
    ind \o <<" ", " ", "\"", "w", "o", "r", "d", "s", "\"", ":", " ">> \o Dec(st[1]) \o <<",", "\n">> \o
    ind \o <<" ", " ", "\"", "l", "i", "n", "e", "s", "\"", ":", " ">> \o Dec(st[2]) \o <<",", "\n">> \o
    ind \o <<" ", " ", "\"", "c", "h", "a", "r", "s", "\"", ":", " ">> \o Dec(st[3]) \o <<"\n">> \o
    ind \o <<"}">>

\* one item object; ind is the indentation of its brace.  "stats" is inserted
\* last, so it is the last key
JsonItem(payload, ind) ==
    LET k == ind \o <<" ", " ">>
        members ==
          << k \o <<"\"", "v", "i", "d", "e", "o", "_", "i", "d", "\"", ":", " ">> \o JsonStr(payload.video_id),
             k \o <<"\"", "t", "i", "t", "l", "e", "\"", ":", " ">> \o JsonStr(payload.title),
             k \o <<"\"", "u", "r", "l", "\"", ":", " ">> \o JsonStr(payload.url),
             k \o <<"\"", "l", "a", "n", "g", "u", "a", "g", "e", "\"", ":", " ">> \o JsonStr(payload.language),
             k \o <<"\"", "t", "r", "a", "n", "s", "c", "r", "i", "p", "t", "\"", ":", " ">> \o JsonTranscript(payload.transcript, k) >>
          \o (IF payload.stats = NoStats THEN << >>
              ELSE << k \o <<"\"", "s", "t", "a", "t", "s", "\"", ":", " ">> \o JsonStatsObj(payload.stats, k) >>)
    IN  <<"{", "\n">> \o Join(members, <<",", "\n">>) \o <<"\n">> \o ind \o <<"}">>

\* json.dumps(payload, indent=2, ensure_ascii=False) of the per-item payload
JsonDumps(payload) == JsonItem(payload, << >>)

\* the text grab measures and writes: the dump plus the final newline
JsonText(payload) ==
    LET tmp == JsonDumps(payload)
    IN  IF Len(tmp) > 0 /\ tmp[Len(tmp)] = "\n" THEN tmp ELSE tmp \o <<"\n">>

RECURSIVE JsonStatsRound(_, _)
\* the stats loop of grab: at most JsonRounds measurements
JsonStatsRound(payload, k) ==
    IF k >= JsonRounds THEN payload
    ELSE LET wanted == stats(JsonText(payload))
         IN  IF payload.stats = wanted THEN payload
             ELSE JsonStatsRound([payload EXCEPT !.stats = wanted], k + 1)

\* the meta record grab builds
Meta(vid, title, langs) ==
    [video_id |-> vid, title |-> title, url |-> YoutuBe \o vid,
     language |-> IF Len(langs) > 0 THEN langs[1] ELSE <<"u", "n", "k", "n", "o", "w", "n">>]

\* the text grab writes to its target path on success
GrabDocument(fmt_key, include_stats, tr, data, meta, ts) ==
    IF fmt_key = "json"
    THEN LET payload == [video_id |-> meta.video_id, title |-> meta.title,
                         url |-> meta.url, language |-> meta.language,
                         transcript |-> tr, stats |-> NoStats]
         IN  JsonText(IF include_stats THEN JsonStatsRound(payload, 0) ELSE payload)
    ELSE IF ~include_stats THEN data
    ELSE SingleFileHeader(fmt_key, data, meta, ts)

\* ----------------------------------------------------- reading a document
IsDigit(ch) == \E d \in 0..9 : Digits[d + 1] = ch

DigitVal(ch) == CHOOSE d \in 0..9 : Digits[d + 1] = ch

RECURSIVE ReadNum(_, _, _)
\* the number (digits and thousands separators) that starts at txt[i]
ReadNum(txt, i, acc) ==
    IF i > Len(txt) THEN << acc, i >>
    ELSE IF txt[i] = "," /\ i < Len(txt) /\ IsDigit(txt[i + 1]) THEN ReadNum(txt, i + 1, acc)
    ELSE IF IsDigit(txt[i]) THEN ReadNum(txt, i + 1, acc * 10 + DigitVal(txt[i]))
    ELSE << acc, i >>

\* first position at which pat occurs in txt, 0 if there is none
Find(txt, pat) ==
    LET hits == {i \in 1..(Len(txt) - Len(pat) + 1) : SubSeq(txt, i, i + Len(pat) - 1) = pat}
    IN  IF hits = {} THEN 0 ELSE CHOOSE i \in hits : \A j \in hits : i <= j

\* the triple a "stats:" header line declares; << >> without such a line
DeclaredHeader(txt) ==
    LET p == Find(txt, <<"s", "t", "a", "t", "s", ":", " ">>)
    IN  IF p = 0 \/ (p # 3 /\ p # 6) THEN << >>
        ELSE LET w == ReadNum(txt, p + 7, 0)
                 l == ReadNum(txt, w[2] + 9, 0)
                 c == ReadNum(txt, l[2] + 9, 0)
             IN  << w[1], l[1], c[1] >>

\* the triple of the top-level "stats" object of a per-item JSON document
DeclaredJson(txt) ==
    LET p == Find(txt, <<"\n", " ", " ", "\"", "s", "t", "a", "t", "s", "\"", ":", " ", "{", "\n", " ", " ", " ", " ", "\"", "w", "o", "r", "d", "s", "\"", ":", " ">>)
    IN  IF p = 0 THEN << >>
        ELSE LET w == ReadNum(txt, p + 27, 0)
                 l == ReadNum(txt, w[2] + 15, 0)
                 c == ReadNum(txt, l[2] + 15, 0)
             IN  << w[1], l[1], c[1] >>

\* ---------------- inputs
MaxTitleLen == 3       \* longest title of the document inputs
MaxBodyLines == 3      \* short lines appended to a document body
LongReps == 83         \* ten-character words of the long body
MidReps == 77          \* two-character words of the medium body
CueReps == 74          \* ten-character words of the long cue

Timestamp == <<"2", "0", "2", "6", "-", "1", "1", "-", "0", "2", "T", "1", "0", ":", "2", "0", ":", "3", "0", ".", "1", "2", "3", "4", "5", "6">>      \* datetime.now().isoformat()

DocTitles == {Rep(t, <<"x">>) : t \in 0..MaxTitleLen}
DocLangs == { << <<"e", "n">> >>, << >> }
DocBodies == {base \o Rep(n, <<"a", "b", "\n">>) :
                 base \in {<<>>, Rep(MidReps, <<"a", " ">>), Rep(LongReps, <<"a", "b", "c", "d", "e", "f", "g", "h", "i", " ">>)},
                 n \in 0..MaxBodyLines}
DocCues == { [start |-> 0, duration |-> 15, text |-> <<"H", "e", "l", "l", "o", " ", "\"", "w", "\"">>],
             [start |-> 0, duration |-> 15, text |-> Rep(CueReps, <<"a", "b", "c", "d", "e", "f", "g", "h", "i", " ">>)] }
DocTranscripts == UNION {[1..n -> DocCues] : n \in 0..MaxCues}
Formats == {"json", "srt", "webvtt", "text", "pretty"}


\* ---------------- items, pool and remote outcomes
Items == 1..NumItems

\* enumerator output: video id and title of item i
ItemVid(i) == <<"v">> \o Dec(i - 1)
ItemTitle(i) == <<"T">> \o Dec(i - 1)
ItemLangs == << <<"e", "n">> >>

\* what the remote holds for item i: the cues and their formatted text
ItemTr(i) == [k \in 1..i |-> [start |-> 10 * (k - 1), duration |-> 15, text |-> <<"H", "e", "l", "l", "o", " ", "w", "o", "r", "l", "d">>]]
\* FMT["text"]: the cue texts joined by newlines
FormatTranscript(tr) == Join([k \in 1..Len(tr) |-> tr[k].text], <<"\n">>)
ItemData(i) == FormatTranscript(ItemTr(i))

\* identity labels: a pool endpoint, the single configured proxy, or none
None == << "none", 0 >>
Direct == << "direct", 0 >>
ProxyCfg == << "cfg", 0 >>
Endpoint(k) == << "pool", k >>

\* outcomes of one api.fetch call, by the except clause that handles them
Throttled == "throttled"          \* TooManyRequests, IpBlocked, CouldNotRetrieveTranscript
\* "writeerr": the fetch succeeded and path.write_text raised OSError after
\* opening the path; "typeerror" is a TypeError of the fetch or the formatting
Outcomes == {"ok", "nocaption", "typeerror_ntf", "typeerror", "unavailable",
             Throttled, "reqexc", "other", "writeerr"}

VARIABLES
    cfg,        \* run configuration, fixed at start
    wk,         \* wk[i]: the grab coroutine of item i
    sem,        \* value of the asyncio.Semaphore(args.jobs)
    banned,     \* banned_proxies, shared by all workers
    used,       \* proxies_used, shared by all workers
    results,    \* results in completion order (asyncio.as_completed)
    files,      \* files[i]: the target path of item i
    cc,         \* the concatenation loop of _main
    segs,       \* the concatenated output files, in segment order
    doc,        \* the single-document specification's document
    pr,         \* the preflight probe of _main (--check-ip)
    px,         \* the proxy sources of the command line and what _main makes of them
    fx,         \* one call of _fixup_loop: its arguments, then its result
    POOLS,      \* site_downloader.pool._POOLS: key -> registered pool
    pools,      \* the _ContextPool objects constructed so far
    caller        \* the coroutines that use the browser-context pool

\* the state outside the download run
aside == << pr, px, fx, POOLS, pools, caller >>

vars == << cfg, wk, sem, banned, used, results, files, cc, segs, doc, aside >>

\* the endpoints of the explored pools
PoolGetAll == {Endpoint(k) : k \in 1..PoolSize}

\* values proxy_pool.get() can return: an endpoint of a rotating pool, or
\* nothing from a pool object that has no endpoint to hand out
PoolGet ==
    IF cfg.identity = "exhausted" THEN {None} ELSE PoolGetAll

\* the parts of the program that a specification leaves out stay as they start
ProbeOff == pr = [pc |-> "off"]
ProxiesOff == px = [pc |-> "off"]
FixupOff == fx = [pc |-> "off"]
PoolOff == POOLS = << >> /\ pools = << >> /\ caller = << >>

\* the concatenation engine before it starts
\* exit is << >> while the process runs and << code >> once it has exited
Idle == [pc |-> "idle", idx |-> 0, file_idx |-> 0, tot |-> << 0, 0, 0 >>,
         meta_list |-> << >>, objs |-> << >>, ids |-> << >>, exit |-> << >>]

NoDoc == [pc |-> "none"]
NoFile == [n |-> 0, text |-> << >>]

Worker0 == [pc |-> "queued", attempt |-> 0, addr |-> None, proxy |-> None, calls |-> 0,
            last |-> "none", onlyThrottled |-> TRUE, wait |-> 0, result |-> "none"]

\* ---------------------------------------------- SpecDoc: one written document
InitDoc ==
    /\ \E f \in Formats, s \in BOOLEAN, t \in DocTitles, lg \in DocLangs,
          tr \in DocTranscripts, d \in DocBodies :
           /\ (f = "json" => d = <<>>)
           /\ (f # "json" => tr = <<>>)
           /\ doc = [pc |-> "input", fmt |-> f, include_stats |-> s, vid |-> <<"v", "0">>,
                     title |-> t, langs |-> lg, tr |-> tr, data |-> d, text |-> <<>>]
    /\ cfg = [mode |-> "doc"]
    /\ wk = << >>
    /\ sem = 0
    /\ banned = {}
    /\ used = {}
    /\ results = << >>
    /\ files = << >>
    /\ cc = Idle
    /\ segs = << >>
    /\ ProbeOff /\ ProxiesOff /\ FixupOff /\ PoolOff

\* the success branch of grab, from building meta to path.write_text
DocWrite ==
    /\ doc.pc = "input"
    /\ doc' = [doc EXCEPT !.pc = "written",
                 !.text = GrabDocument(doc.fmt, doc.include_stats, doc.tr, doc.data,
                                       Meta(doc.vid, doc.title, doc.langs), Timestamp)]
    /\ UNCHANGED << cfg, wk, sem, banned, used, results, files, cc, segs, aside >>

NextDoc == DocWrite

SpecDoc == InitDoc /\ [][NextDoc]_vars

\* ---------------- the download worker (core.grab)
RECURSIVE SpinLoopReset(_, _, _)
\* variant: an exhausted sampling loop forgets the last sampled address
SpinLoopReset(spin, addr, bset) ==
    IF spin < MaxSpin
    THEN UNION {IF a \notin bset THEN {a} ELSE SpinLoopReset(spin + 1, a, bset) : a \in PoolGet}
    ELSE {None}

RECURSIVE SpinLoop(_, _, _)
\* the sampling loop "while spin < 5": the addresses it can leave in addr
SpinLoop(spin, addr, bset) ==
    IF spin < MaxSpin
    THEN UNION {IF a \notin bset THEN {a} ELSE SpinLoop(spin + 1, a, bset) : a \in PoolGet}
    ELSE {addr}

\* variant: the check after the sampling loop is missing
AllSampledBannedNever(addr, bset) == FALSE

\* "if addr in banned" after the sampling loop
AllSampledBanned(addr, bset) == addr \in bset

\* identity selection at the top of an attempt: endpoint, proxy config, abort
Acquire(bset) ==
    IF cfg.identity \in {"pool", "exhausted"}
    THEN {[addr |-> a, proxy |-> None, abort |-> AllSampledBanned(a, bset)] :
              a \in SpinLoop(0, None, bset)}
    ELSE IF cfg.identity = "cfg"
    THEN {[addr |-> None, proxy |-> ProxyCfg, abort |-> FALSE]}
    ELSE {[addr |-> None, proxy |-> None, abort |-> FALSE]}

\* variant: every fetch is recorded under the direct label
LabelAlwaysDirect(addr, proxy) == Direct

\* label = addr or proxy url or "direct"
Label(addr, proxy) ==
    IF addr # None THEN addr ELSE IF proxy = ProxyCfg THEN ProxyCfg ELSE Direct

\* YouTubeTranscriptApi(proxy_config=proxy, http_client=session): what the
\* fetch connects through; the session carries no proxy settings of its own
Transport(proxy) == IF proxy = None THEN Direct ELSE proxy

\* banned.add(addr) under "if addr"
Ban(bset, addr) == IF addr # None THEN bset \cup {addr} ELSE bset

\* variant: the rate-limit back-off uses the short generic pause
ThrottleWaitShort(attempt) == 5 * attempt

\* rate-limit back-off in tenths of a second: wait = 6 * attempt
ThrottleWait(attempt) == 60 * attempt
\* asyncio.sleep(1.0 * attempt) after a requests exception
NetworkWait(attempt) == 10 * attempt
\* asyncio.sleep(0.5 * attempt) after any other exception
OtherWait(attempt) == 5 * attempt

\* return (status, vid, title): leaves "async with sem", the future completes
Return(i, rec, status, s) ==
    /\ wk' = [wk EXCEPT ![i] = [rec EXCEPT !.pc = "done", !.result = status]]
    /\ sem' = s + 1
    /\ results' = Append(results, << status, i >>)

\* variant: the inter-request delay is slept after "async with sem" was left
LeaveOutsideGate(i, rec, status, s) ==
    IF cfg.delay
    THEN /\ wk' = [wk EXCEPT ![i] = [rec EXCEPT !.pc = "delay", !.result = status]]
         /\ sem' = s + 1
         /\ UNCHANGED results
    ELSE Return(i, rec, status, s)

\* "if delay: await asyncio.sleep(delay)" before a return
Leave(i, rec, status, s) ==
    IF cfg.delay
    THEN /\ wk' = [wk EXCEPT ![i] = [rec EXCEPT !.pc = "delay", !.result = status]]
         /\ sem' = s
         /\ UNCHANGED results
    ELSE Return(i, rec, status, s)

\* variant: the exception leaves the coroutine with the slot still taken
RaiseHoldingSlot(i, rec, s) ==
    /\ wk' = [wk EXCEPT ![i] = [rec EXCEPT !.pc = "done", !.result = "raised"]]
    /\ sem' = s
    /\ results' = Append(results, << "raised", i >>)

\* an exception that no except clause of grab handles leaves the coroutine
Raise(i, rec, s) ==
    /\ wk' = [wk EXCEPT ![i] = [rec EXCEPT !.pc = "done", !.result = "raised"]]
    /\ sem' = s + 1
    /\ results' = Append(results, << "raised", i >>)

\* an exception left a grab coroutine: "res = await fut" raises in _main and
\* asyncio.run cancels the grab coroutines that have not returned
Raised == \E k \in 1..Len(results) : results[k][1] = "raised"

\* variant: the attempt loop is "for attempt in range(1, tries)"
MoreAttemptsShort(attempt) == attempt + 1 < cfg.tries

\* "for attempt in range(1, tries + 1)": another attempt follows this one
MoreAttempts(attempt) == attempt < cfg.tries

\* top of the attempt loop up to the awaited api.fetch; s is the semaphore value
BeginAttempt(i, rec, s) ==
    \E id \in Acquire(banned) :
        IF id.abort
        THEN /\ Return(i, [rec EXCEPT !.addr = id.addr], "proxy_fail", s)
             /\ UNCHANGED << used, banned, files >>
        ELSE /\ used' = used \cup {Label(id.addr, id.proxy)}
             /\ wk' = [wk EXCEPT ![i] = [rec EXCEPT !.pc = "fetch", !.addr = id.addr,
                                           !.proxy = id.proxy, !.calls = @ + 1,
                                           !.last = "none", !.wait = 0]]
             /\ sem' = s
             /\ UNCHANGED << banned, files, results >>

\* "async with sem" is entered and the first attempt runs up to its fetch
Admit(i) ==
    /\ cfg.mode = "run" /\ ~Raised /\ cc.pc # "interrupted"
    /\ wk[i].pc = "queued"
    /\ sem > 0
    /\ BeginAttempt(i, [wk[i] EXCEPT !.attempt = 1], sem - 1)
    /\ UNCHANGED << cfg, cc, segs, doc, aside >>

\* variant: the CouldNotRetrieveTranscript clause precedes the one of its
\* subclass VideoUnavailable
ClauseUnavailableShadowed(out) == IF out = "unavailable" THEN Throttled ELSE out

\* variant: the no-transcript exceptions have no clause of their own
ClauseNoCaptionUncaught(out) == IF out = "nocaption" THEN "other" ELSE out

\* the except clause of grab that handles an outcome; the clauses are tried
\* in source order, so the subclasses of CouldNotRetrieveTranscript
\* (no transcript, video unavailable) reach their own clause first
Clause(out) == out

\* what a failed write_text can leave in the path: nothing or a prefix
PartialWrites(txt) == {<< >>, SubSeq(txt, 1, Len(txt) \div 2)}

\* the handler grab runs for the outcome of the awaited fetch
Handle(i, out) ==
    LET rec == [wk[i] EXCEPT !.last = out,
                   !.onlyThrottled = IF out = "ok" THEN @ ELSE @ /\ out = Throttled]
        last_try == rec.attempt = cfg.tries
        cl == Clause(out)
    IN  CASE cl = "ok" ->
               /\ files' = [files EXCEPT ![i] =
                     [n |-> @.n + 1,
                      text |-> GrabDocument(cfg.fmt, cfg.stats /\ ~cfg.concat, ItemTr(i),
                                   ItemData(i), Meta(ItemVid(i), ItemTitle(i), ItemLangs),
                                   Timestamp)]]
               /\ Leave(i, rec, "ok", sem)
               /\ UNCHANGED << banned, used >>
          [] cl = "nocaption" ->
               /\ Leave(i, rec, "none", sem)
               /\ UNCHANGED << banned, used, files >>
          [] cl = "typeerror_ntf" ->
               /\ Return(i, rec, "none", sem)
               /\ UNCHANGED << banned, used, files >>
          [] cl = "typeerror" ->
               /\ Raise(i, rec, sem)
               /\ UNCHANGED << banned, used, files >>
          [] cl = "unavailable" ->
               /\ Return(i, rec, "fail", sem)
               /\ UNCHANGED << banned, used, files >>
          [] cl = Throttled ->
               /\ banned' = Ban(banned, rec.addr)
               /\ wk' = [wk EXCEPT ![i] = [rec EXCEPT !.pc = "backoff",
                                             !.wait = ThrottleWait(rec.attempt)]]
               /\ UNCHANGED << sem, results, used, files >>
          [] cl \in {"reqexc", "other"} ->
               IF last_try
               THEN /\ banned' = Ban(banned, rec.addr)
                    /\ Leave(i, rec, "proxy_fail", sem)
                    /\ UNCHANGED << used, files >>
               ELSE /\ wk' = [wk EXCEPT ![i] = [rec EXCEPT !.pc = "backoff",
                                 !.wait = IF cl = "reqexc" THEN NetworkWait(rec.attempt)
                                          ELSE OtherWait(rec.attempt)]]
                    /\ UNCHANGED << sem, results, banned, used, files >>
          [] cl = "writeerr" ->
               \* write_text opened (created or truncated) the path and raised:
               \* the "except Exception" clause, with what reached the disk
               /\ \E part \in PartialWrites(GrabDocument(cfg.fmt, cfg.stats /\ ~cfg.concat,
                                     ItemTr(i), ItemData(i),
                                     Meta(ItemVid(i), ItemTitle(i), ItemLangs), Timestamp)) :
                      files' = [files EXCEPT ![i] = [n |-> @.n + 1, text |-> part]]
               /\ IF last_try
                  THEN /\ banned' = Ban(banned, rec.addr)
                       /\ Leave(i, rec, "proxy_fail", sem)
                       /\ UNCHANGED used
                  ELSE /\ wk' = [wk EXCEPT ![i] = [rec EXCEPT !.pc = "backoff",
                                                  !.wait = OtherWait(rec.attempt)]]
                       /\ UNCHANGED << sem, results, banned, used >>

\* the awaited api.fetch of worker i completes with some outcome
FetchReturn(i) ==
    /\ cfg.mode = "run" /\ ~Raised /\ cc.pc # "interrupted"
    /\ wk[i].pc = "fetch"
    /\ \/ \E out \in cfg.env \ {"ok", "writeerr"} : Handle(i, out)      \* the fetch raised
       \/ \E out \in cfg.env \cap {"ok", "writeerr"} : Handle(i, out)    \* it returned cues
    /\ UNCHANGED << cfg, cc, segs, doc, aside >>

\* a back-off sleep ends: next attempt, or the loop is exhausted
Wake(i) ==
    /\ cfg.mode = "run" /\ ~Raised /\ cc.pc # "interrupted"
    /\ wk[i].pc = "backoff"
    /\ IF MoreAttempts(wk[i].attempt)
       THEN BeginAttempt(i, [wk[i] EXCEPT !.attempt = @ + 1], sem)
       ELSE /\ Leave(i, wk[i], "proxy_fail", sem)
            /\ UNCHANGED << banned, used, files >>
    /\ UNCHANGED << cfg, cc, segs, doc, aside >>

\* the inter-request delay before a return ends
DelayDone(i) ==
    /\ cfg.mode = "run" /\ ~Raised /\ cc.pc # "interrupted"
    /\ wk[i].pc = "delay"
    /\ Return(i, wk[i], wk[i].result, sem)
    /\ UNCHANGED << cfg, banned, used, files, cc, segs, doc, aside >>


\* ---------------- the concatenation engine (cli._main)
\* inputs of the concatenating runs
TightWords == 1        \* a word limit below the size of an item
SplitWords == 7        \* a word limit that two items fit under
SplitLines == 1        \* a line limit
SplitChars == 40       \* a character limit
JsonSplitChars == 500  \* a character limit that two item files fit under
ConcatFormats == {"text", "json"}
Splits == { << 0, "w" >>, << TightWords, "w" >>, << SplitWords, "w" >>,
            << SplitLines, "l" >>, << SplitChars, "c" >>, << JsonSplitChars, "c" >> }


\* ok = [r for r in results if r[0] == "ok"] + skipped
Ok == {results[k][2] : k \in {k \in 1..Len(results) : results[k][1] = "ok"}}
          \cup {i \in 1..cfg.n : wk[i].pc = "skipped"}

\* fail = [r for r in results if r[0] == "fail"]
Fail == {results[k][2] : k \in {k \in 1..Len(results) : results[k][1] = "fail"}}

\* the path of item v exists: left by an earlier run or written by this one
FileExists(v) == files[v].n > 0 \/ v \in cfg.existing

\* the content of the path of item v; an earlier run left the caption text
FileText(v) == IF files[v].n > 0 THEN files[v].text ELSE ItemData(v)

\* the index of a unit in a stats triple
UnitIndex(u) == CASE u = "w" -> 1 [] u = "l" -> 2 [] u = "c" -> 3

Add3(a, b) == << a[1] + b[1], a[2] + b[2], a[3] + b[3] >>

\* the "exceed" test of both concatenation loops
Exceed(tot, piece) ==
    /\ cfg.split_limit # 0
    /\ Add3(tot, piece)[UnitIndex(cfg.split_unit)] > cfg.split_limit

\* SEP = lambda v, t: the separator line of a non-JSON item
SEP(v, t) ==
    <<"\n", "BOXH", "BOXH", "BOXH", "BOXH", " ">> \o v \o <<" ", "BOXH", "BOXH", " ">> \o SubSeq(t, 1, IF Len(t) < SepTitleLen THEN Len(t) ELSE SepTitleLen)
        \o <<" ", "BOXH", "BOXH", "BOXH", "BOXH", "BOXH", "BOXH", "BOXH", "BOXH", "BOXH", "BOXH", "BOXH", "BOXH", "BOXH", "BOXH", "BOXH", "BOXH", "BOXH", "BOXH", "BOXH", "BOXH", "BOXH", "BOXH", "BOXH", "BOXH", "BOXH", "\n">>

\* variant: the merge loop walks the results in completion order
ConcatOrderCompleted == [k \in 1..Len(results) |-> results[k][2]]

\* "for v in videos": the merge loops walk the enumerator's list
ConcatOrder == [k \in 1..cfg.n |-> k]

\* a file opened for writing and what was written to it, in order
\* heads counts the headers prepended to the file
\* and loops records the stats loops run for it
NewSeg == [chunks |-> << >>, hdr |-> << >>, closed |-> FALSE, heads |-> 0, loops |-> << >>]
Chunk(kind, items, text) == [kind |-> kind, items |-> items, text |-> text]
SegWrite(seg, chunk) == [seg EXCEPT !.chunks = Append(@, chunk)]

RECURSIVE Flat(_)
Flat(chunks) == IF Len(chunks) = 0 THEN << >> ELSE Head(chunks).text \o Flat(Tail(chunks))

\* the content of a segment file
SegText(seg) == seg.hdr \o Flat(seg.chunks)

\* header._prepend_header: the file is rewritten as hdr + its content
PrependHeader(seg, hdr) == [seg EXCEPT !.hdr = hdr \o @, !.heads = @ + 1]

\* dst.close() and, with stats, the header of the segment being closed
CloseSeg(seg, tot, metas) ==
    LET shut == [seg EXCEPT !.closed = TRUE]
    IN  IF cfg.stats
        THEN PrependHeader(shut, FixupLoop(tot, cfg.fmt, metas, Timestamp)[1])
        ELSE shut

\* json.loads of a per-item file: the object whose dump the text is
JsonLoads(txt) ==
    CHOOSE p \in {[video_id |-> ItemVid(i), title |-> ItemTitle(i),
                   url |-> YoutuBe \o ItemVid(i), language |-> ItemLangs[1],
                   transcript |-> ItemTr(i), stats |-> NoStats] : i \in Items} :
        JsonText(p) = txt

StatsFuel == 8         \* rounds after which a stats loop counts as not ending

\* variant: the comparison that ends a stats loop never succeeds
StatsSettledNever(have, wanted) == FALSE

\* 'if it.get("stats") == wanted: break', and the same test on the payload
StatsSettled(have, wanted) == have = wanted

RECURSIVE ItemStatsRun(_, _)
\* round k of the per-item "while True" loop of _flush_json and the rounds
\* after it: the object, the rounds run, whether the loop was left
ItemStatsRun(it, k) ==
    LET wanted == stats(JsonText(it))
    IN  IF StatsSettled(it.stats, wanted)
        THEN [it |-> it, rounds |-> k, settled |-> TRUE]
        ELSE IF k >= StatsFuel
        THEN [it |-> [it EXCEPT !.stats = wanted], rounds |-> k, settled |-> FALSE]
        ELSE ItemStatsRun([it EXCEPT !.stats = wanted], k + 1)

\* json.dumps({"items": objs, "stats": st}, indent=2)
JsonContainer(objs, st) ==
    <<"{", "\n", " ", " ", "\"", "i", "t", "e", "m", "s", "\"", ":", " ", "[", "\n">>
      \o Join([k \in 1..Len(objs) |-> <<" ", " ", " ", " ">> \o JsonItem(objs[k], <<" ", " ", " ", " ">>)], <<",", "\n">>)
      \o <<"\n", " ", " ", "]">>
      \o (IF st = NoStats THEN << >> ELSE <<",", "\n", " ", " ", "\"", "s", "t", "a", "t", "s", "\"", ":", " ">> \o JsonStatsObj(st, <<" ", " ">>))
      \o <<"\n", "}">>


RECURSIVE ContainerStatsRun(_, _, _)
\* round k of the container "while True" loop of _flush_json and the rounds
\* after it: the text left in txt, the rounds run, whether the loop was left
ContainerStatsRun(objs, st, k) ==
    LET txt == JsonContainer(objs, st)
        new == stats(txt)
    IN  IF StatsSettled(st, new)
        THEN [txt |-> txt, rounds |-> k, settled |-> TRUE]
        ELSE IF k >= StatsFuel
        THEN [txt |-> txt, rounds |-> k, settled |-> FALSE]
        ELSE ContainerStatsRun(objs, new, k + 1)

\* variant: the container is measured once, before "stats" is inserted
ContainerStatsOnce(objs, st) ==
    [txt |-> JsonContainer(objs, stats(JsonContainer(objs, st))),
     rounds |-> 1, settled |-> TRUE]

\* the container "while True" loop of _flush_json, from its first round
ContainerStatsLoop(objs, st) == ContainerStatsRun(objs, st, 1)

\* what _flush_json writes for the accumulated objects: the stats loops run
\* once per item and, with stats, once for the container; text is the
\* content of the file, loops the rounds each loop ran and whether it was left
FlushRun(objs) ==
    CHOOSE run \in
        {IF cfg.stats
         THEN CHOOSE r \in
                  {[text |-> box.txt,
                    loops |-> [k \in 1..Len(objs) + 1 |->
                                  IF k <= Len(objs)
                                  THEN [rounds |-> runs[k].rounds, settled |-> runs[k].settled]
                                  ELSE [rounds |-> box.rounds, settled |-> box.settled]]] :
                   box \in {ContainerStatsLoop([k \in 1..Len(objs) |-> runs[k].it], NoStats)}} :
                  TRUE
         ELSE [text |-> JsonContainer([k \in 1..Len(objs) |-> runs[k].it], NoStats) \o <<"\n">>,
               loops |-> [k \in 1..Len(objs) |->
                             [rounds |-> runs[k].rounds, settled |-> runs[k].settled]]] :
         runs \in {[k \in 1..Len(objs) |-> ItemStatsRun(objs[k], 1)]}} : TRUE

\* _flush_json: one segment file written from the accumulated objects
FlushJson(c, ss) ==
    [cc |-> [c EXCEPT !.objs = << >>, !.ids = << >>, !.tot = << 0, 0, 0 >>,
                      !.meta_list = << >>, !.file_idx = @ + 1],
     segs |-> CHOOSE out \in
                  {Append(ss, [NewSeg EXCEPT !.closed = TRUE,
                                  !.chunks = << Chunk("json", c.ids, run.text) >>,
                                  !.loops = run.loops]) :
                   run \in {FlushRun(c.objs)}} : TRUE]

\* every grab has returned: the as_completed loop of _main is over
AllReturned ==
    /\ cfg.mode = "run"
    /\ \A i \in 1..cfg.n : wk[i].pc \in {"done", "skipped"}
    /\ \A k \in 1..Len(results) : results[k][1] # "raised"

\* "if args.concat and ok": the first output file is opened (non-JSON)
ConcatBegin ==
    /\ AllReturned /\ cfg.concat /\ cc.pc = "idle" /\ cc.exit = << >>
    /\ IF Ok = {}
       THEN /\ cc' = [cc EXCEPT !.pc = "skipped"]
            /\ UNCHANGED segs
       ELSE /\ cc' = [cc EXCEPT !.pc = "loop", !.idx = 1, !.file_idx = 1]
            /\ segs' = IF cfg.fmt = "json" THEN << >> ELSE << NewSeg >>
    /\ UNCHANGED << cfg, wk, sem, banned, used, results, files, doc, aside >>

\* variant: the rollover test ignores what the accumulator holds
AccumulatedAlways(tot) == TRUE

\* "(w_tot or l_tot or c_tot)": the open segment has counted content
Accumulated(tot) == tot # << 0, 0, 0 >>

\* variant: the next segment is opened and the one left behind is neither
\* closed nor headed
RolloverUnheaded(c, ss) ==
    [cc |-> [c EXCEPT !.file_idx = @ + 1, !.meta_list = << >>, !.tot = << 0, 0, 0 >>],
     segs |-> Append(ss, NewSeg)]

\* _rollover: close and head the open segment, open the next one
Rollover(c, ss) ==
    [cc |-> [c EXCEPT !.file_idx = @ + 1, !.meta_list = << >>, !.tot = << 0, 0, 0 >>],
     segs |-> Append([ss EXCEPT ![Len(ss)] = CloseSeg(@, c.tot, c.meta_list)], NewSeg)]

\* one iteration of the non-JSON loop "for v in videos"
ConcatPiece ==
    /\ AllReturned /\ cfg.concat /\ cfg.fmt # "json"
    /\ cc.pc = "loop" /\ cc.idx <= Len(ConcatOrder)
    /\ LET v == ConcatOrder[cc.idx]
           piece == FileText(v)
           body == stats(piece)
           sepd == [segs EXCEPT ![Len(segs)] =
                       SegWrite(@, Chunk("sep", << v >>, SEP(ItemVid(v), ItemTitle(v))))]
           roll == Exceed(cc.tot, body) /\ Accumulated(cc.tot)
           st == IF roll THEN Rollover(cc, sepd) ELSE [cc |-> cc, segs |-> sepd]
       IN  IF ~FileExists(v)
           THEN \* next(out_dir.glob(pattern)) raises StopIteration, which
                \* leaves _main as RuntimeError: main() exits with 1
                /\ cc' = [cc EXCEPT !.pc = "crashed", !.exit = << 1 >>]
                /\ UNCHANGED segs
           ELSE /\ segs' = [st.segs EXCEPT ![Len(st.segs)] =
                               SegWrite(@, Chunk("body", << v >>, piece))]
                /\ cc' = [st.cc EXCEPT !.idx = cc.idx + 1,
                             !.meta_list = Append(@, << ItemVid(v), ItemTitle(v) >>),
                             !.tot = Add3(@, body)]
    /\ UNCHANGED << cfg, wk, sem, banned, used, results, files, doc, aside >>

\* one iteration of the JSON loop "for v_idx, v in enumerate(videos, 1)"
ConcatObject ==
    /\ AllReturned /\ cfg.concat /\ cfg.fmt = "json"
    /\ cc.pc = "loop" /\ cc.idx <= Len(ConcatOrder)
    /\ LET v == ConcatOrder[cc.idx]
           obj_txt == FileText(v)
           piece == stats(obj_txt)
           st == IF Exceed(cc.tot, piece) /\ Len(cc.objs) > 0
                 THEN FlushJson(cc, segs) ELSE [cc |-> cc, segs |-> segs]
       IN  IF v \notin Ok \/ ~FileExists(v)
           THEN \* continue
                /\ cc' = [cc EXCEPT !.idx = @ + 1]
                /\ UNCHANGED segs
           ELSE /\ segs' = st.segs
                /\ cc' = [st.cc EXCEPT !.idx = cc.idx + 1,
                             !.objs = Append(@, JsonLoads(obj_txt)),
                             !.ids = Append(@, v),
                             !.meta_list = Append(@, << ItemVid(v), ItemTitle(v) >>),
                             !.tot = Add3(@, piece)]
    /\ UNCHANGED << cfg, wk, sem, banned, used, results, files, doc, aside >>

\* after the loop: the last segment is closed and headed, or flushed
ConcatEnd ==
    /\ AllReturned /\ cfg.concat
    /\ cc.pc = "loop" /\ cc.idx > Len(ConcatOrder)
    /\ IF cfg.fmt = "json"
       THEN LET st == IF Len(cc.objs) > 0 THEN FlushJson(cc, segs)
                      ELSE [cc |-> cc, segs |-> segs]
            IN  /\ segs' = st.segs
                /\ cc' = [st.cc EXCEPT !.pc = "done"]
       ELSE /\ segs' = [segs EXCEPT ![Len(segs)] = CloseSeg(@, cc.tot, cc.meta_list)]
            /\ cc' = [cc EXCEPT !.pc = "done"]
    /\ UNCHANGED << cfg, wk, sem, banned, used, results, files, doc, aside >>


\* ---------------- the end of _main and the process exit code
\* "res = await fut" re-raises what left a grab coroutine; main() catches it
\* and calls sys.exit(1)
Abort ==
    /\ cfg.mode = "run" /\ Raised /\ cc.exit = << >>
    /\ cc' = [cc EXCEPT !.pc = "aborted", !.exit = << 1 >>]
    /\ UNCHANGED << cfg, wk, sem, banned, used, results, files, segs, doc, aside >>

\* _main runs to its end once every result is collected and merged:
\* "if fail: sys.exit(2)", else the normal exit
Exit ==
    /\ AllReturned /\ cc.exit = << >>
    /\ IF cfg.concat THEN cc.pc \in {"done", "skipped"} ELSE cc.pc = "idle"
    /\ cc' = [cc EXCEPT !.exit = << IF Fail # {} THEN 2 ELSE 0 >>]
    /\ UNCHANGED << cfg, wk, sem, banned, used, results, files, segs, doc, aside >>

\* variant: an existing path is skipped in every mode
ScheduledUnlessExists(i, existing, concat) == i \notin existing

\* "if path.exists() and not args.concat: skipped.append(...); continue"
Scheduled(i, existing, concat) == ~(i \in existing /\ ~concat)

\* the coroutines of the tasks list, and the items skipped, before any runs
Tasks(n, existing, concat) ==
    [i \in Items |-> IF i > n THEN [Worker0 EXCEPT !.pc = "absent"]
                     ELSE IF Scheduled(i, existing, concat) THEN Worker0
                     ELSE [Worker0 EXCEPT !.pc = "skipped", !.result = "ok"]]

\* the sets of paths an earlier run can have left behind
MaxExisting == 1
Existing(n) == {e \in SUBSET (1..n) : Cardinality(e) <= MaxExisting}

\* ---------------------------------------------- SpecGrab: the workers of one run
\* "exhausted" is a pool object whose get() returns None
Identities == {"pool", "exhausted", "cfg", "direct"}

\* the runs explored: n enumerated items, each worker with a budget of tries
\* attempts, n * tries network calls at most
Scenarios ==
    {sc \in [n : 1..GrabItems, tries : {ShortTries, DefaultTries}] :
        sc.n * sc.tries <= MaxCalls}

\* runs of up to FullEnvItems items draw every outcome at every fetch; larger
\* runs draw the outcomes that end the run, fail an item or ban an endpoint
FullEnvItems == 2
Env(n) ==
    IF n <= FullEnvItems THEN Outcomes
    ELSE {"ok", "typeerror", "unavailable", Throttled, "reqexc"}

InitGrab ==
    /\ \E id \in Identities, j \in 1..MaxJobs, d \in BOOLEAN, sc \in Scenarios :
       \E e \in Existing(sc.n) :
          cfg = [mode |-> "run", n |-> sc.n, identity |-> id, jobs |-> j, delay |-> d,
                 tries |-> sc.tries, fmt |-> "text", stats |-> TRUE, concat |-> FALSE,
                 split_limit |-> 0, split_unit |-> "w", existing |-> e,
                 env |-> Env(sc.n)]
    /\ wk = Tasks(cfg.n, cfg.existing, cfg.concat)
    /\ sem = cfg.jobs
    /\ banned = {}
    /\ used = {}
    /\ results = << >>
    /\ files = [i \in Items |-> NoFile]
    /\ cc = Idle
    /\ segs = << >>
    /\ doc = NoDoc
    /\ ProbeOff /\ ProxiesOff /\ FixupOff /\ PoolOff

NextGrab ==
    \/ \E i \in 1..cfg.n : Admit(i) \/ FetchReturn(i) \/ Wake(i) \/ DelayDone(i)
    \/ Abort
    \/ Exit

SpecGrab == InitGrab /\ [][NextGrab]_vars

\* ------------------ SpecConcat: runs over items that are fetched or have no
\* caption track, merged (--concat) or not
InitConcat ==
    /\ \E n \in Items, j \in 1..MaxJobs, f \in ConcatFormats, s \in BOOLEAN, sp \in Splits,
          c \in BOOLEAN :
       \E e \in Existing(n) :
          \* "--split only makes sense together with --concat"
          /\ (~c => sp[1] = 0)
          /\ cfg = [mode |-> "run", n |-> n, identity |-> "direct", jobs |-> j,
                    delay |-> FALSE, tries |-> DefaultTries, fmt |-> f, stats |-> s,
                    concat |-> c, split_limit |-> sp[1], split_unit |-> sp[2],
                    existing |-> e, env |-> {"ok", "nocaption"}]
    /\ wk = Tasks(cfg.n, cfg.existing, cfg.concat)
    /\ sem = cfg.jobs
    /\ banned = {}
    /\ used = {}
    /\ results = << >>
    /\ files = [i \in Items |-> NoFile]
    /\ cc = Idle
    /\ segs = << >>
    /\ doc = NoDoc
    /\ ProbeOff /\ ProxiesOff /\ FixupOff /\ PoolOff

NextConcat ==
    \/ \E i \in 1..cfg.n : Admit(i) \/ FetchReturn(i)
    \/ ConcatBegin
    \/ ConcatPiece
    \/ ConcatObject
    \/ ConcatEnd
    \/ Exit

SpecConcat == InitConcat /\ [][NextConcat]_vars

\* ------------------ SpecProbe: a run that starts with the preflight probe
\* (--check-ip) of the first enumerated item
\* "tries: int = 3" of probe_video
ProbeTries == 3


\* the one entry of "proxies" and the addr, proxy and label derived from it
ProbeIdentity ==
    IF cfg.identity = "cfg"
    THEN {[addr |-> None, proxy |-> ProxyCfg, label |-> ProxyCfg]}
    ELSE IF cfg.identity \in {"pool", "exhausted"}
    THEN {[addr |-> a, proxy |-> a, label |-> IF a # None THEN a ELSE Direct] : a \in PoolGet}
    ELSE {[addr |-> None, proxy |-> None, label |-> Direct]}

\* "if addr: banned.add(addr) elif label == 'direct': banned.add(label)"
ProbeBan(bset) ==
    IF pr.addr # None THEN bset \cup {pr.addr}
    ELSE IF pr.label = Direct THEN bset \cup {Direct} ELSE bset


\* variant: a failed probe is only logged
BailsNever(ok_probe) == FALSE

\* "if not ok_probe: ... sys.exit(2)"
Bails(ok_probe) == ~ok_probe


\* probe_video returns (ok, bset) to _main, which exits or builds the
\* semaphore and the tasks
ProbeReturn(ok_probe, bset, out) ==
    /\ pr' = [pr EXCEPT !.pc = "returned", !.ok = ok_probe, !.last = out, !.banned = bset]
    /\ banned' = bset
    /\ IF Bails(ok_probe)
       THEN /\ cc' = [cc EXCEPT !.pc = "bailed", !.exit = << 2 >>]
            /\ UNCHANGED << wk, sem >>
       ELSE /\ wk' = Tasks(cfg.n, cfg.existing, cfg.concat)
            /\ sem' = cfg.jobs
            /\ UNCHANGED cc

\* the probe sleeps (time.sleep blocks the whole program) and fetches again
ProbeRetry(bset, out) ==
    /\ pr' = [pr EXCEPT !.attempt = @ + 1, !.last = out, !.banned = bset]
    /\ banned' = bset
    /\ UNCHANGED << wk, sem, cc >>

\* one api.fetch of the probe completes and probe_video runs to its next fetch
\* or to its return
ProbeFetch ==
    /\ cfg.mode = "run" /\ pr.pc = "fetch"
    \* the outcomes of api.fetch by the clause of probe_video that handles them:
    \* Throttled is TooManyRequests or IpBlocked, "other" any other exception
    /\ \E out \in {"ok", Throttled, "reqexc", "other"} :
          CASE out \in {"ok", "other"} -> ProbeReturn(TRUE, banned, out)
            [] out = Throttled ->
                 IF pr.attempt < ProbeTries
                 THEN ProbeRetry(ProbeBan(banned), out)
                 ELSE ProbeReturn(FALSE, ProbeBan(ProbeBan(banned)), out)
            [] out = "reqexc" ->
                 IF pr.attempt < ProbeTries
                 THEN ProbeRetry(banned, out)
                 ELSE ProbeReturn(FALSE, ProbeBan(banned), out)
    /\ UNCHANGED << cfg, used, results, files, segs, doc, px, fx, POOLS, pools, caller >>


InitProbe ==
    /\ \E id \in Identities, j \in 1..MaxJobs, n \in 1..GrabItems :
       \E e \in Existing(n) :
          cfg = [mode |-> "run", n |-> n, identity |-> id, jobs |-> j, delay |-> FALSE,
                 tries |-> ShortTries, fmt |-> "text", stats |-> TRUE, concat |-> FALSE,
                 split_limit |-> 0, split_unit |-> "w", existing |-> e,
                 env |-> {"ok", Throttled, "typeerror"}]
    /\ \E id \in ProbeIdentity :
          pr = [pc |-> "fetch", attempt |-> 1, addr |-> id.addr, proxy |-> id.proxy,
                label |-> id.label, last |-> "none", ok |-> FALSE, banned |-> {}]
    /\ wk = [i \in Items |-> [Worker0 EXCEPT !.pc = "unbuilt"]]
    /\ sem = 0
    /\ banned = {}
    /\ used = {}
    /\ results = << >>
    /\ files = [i \in Items |-> NoFile]
    /\ cc = Idle
    /\ segs = << >>
    /\ doc = NoDoc
    /\ ProxiesOff /\ FixupOff /\ PoolOff

NextProbe ==
    \/ ProbeFetch
    \/ \E i \in 1..cfg.n : Admit(i) \/ FetchReturn(i) \/ Wake(i)
    \/ Abort
    \/ Exit

SpecProbe == InitProbe /\ [][NextProbe]_vars

\* ------------------ SpecProxies: the proxy sources of one command line
\* bounds on the entries of --proxy, of the proxy file and of the public pool
MaxProxyArgs == 2
MaxPublic == 2

\* an entry that is empty or blank once stripped
Blank == << "blank", 0 >>

RECURSIVE SeqsUpTo(_, _)
\* the sequences over S of length at most n
SeqsUpTo(S, n) ==
    IF n = 0 THEN {<< >>}
    ELSE LET shorter == SeqsUpTo(S, n - 1)
         IN  shorter \cup {Append(q, x) : q \in shorter, x \in S}

\* the raw entries of "--proxy a,b" or of the lines of the proxy file
ProxyArgs == SeqsUpTo(PoolGetAll \cup {Blank}, MaxProxyArgs)

\* the endpoints a started public ProxyPool rotates over; none when
\* initialize_proxy_pool gave up
PublicPools ==
    {q \in SeqsUpTo(PoolGetAll, MaxPublic) : \A a, b \in 1..Len(q) : q[a] = q[b] => a = b}

\* "[p.strip() for p in ... if p.strip()]"
Stripped(raw) == SelectSeq(raw, LAMBDA p : p # Blank)

\* initialize_proxy_pool: the started pool, or None
InitializeProxyPool(public) == IF public = << >> THEN None ELSE public

\* proxy_cfg and proxy_pool as _main leaves them after reading the sources
ProxySetup(cli_raw, file_raw, public_proxy, public) ==
    LET cli_proxies == Stripped(cli_raw)
        file_proxies == Stripped(file_raw)
        proxies == cli_proxies \o file_proxies
        proxy_cfg == IF Len(proxies) = 1 THEN proxies[1] ELSE None
        custom_pool == IF Len(proxies) > 1 THEN proxies ELSE None
        proxy_pool == IF public_proxy THEN InitializeProxyPool(public) ELSE custom_pool
    IN  [proxy_cfg |-> proxy_cfg, proxy_pool |-> proxy_pool]

InitProxies ==
    /\ \E c \in ProxyArgs, f \in ProxyArgs, pp \in BOOLEAN, pub \in PublicPools :
          /\ (~pp => pub = << >>)
          /\ px = [pc |-> "args", proxy |-> c, proxy_file |-> f, public_proxy |-> pp,
                   public |-> pub, proxy_cfg |-> None, proxy_pool |-> None]
    /\ cfg = [mode |-> "proxies"]
    /\ wk = << >>
    /\ sem = 0
    /\ banned = {}
    /\ used = {}
    /\ results = << >>
    /\ files = << >>
    /\ cc = Idle
    /\ segs = << >>
    /\ doc = NoDoc
    /\ ProbeOff /\ FixupOff /\ PoolOff

\* _main reads --proxy, --proxy-file and --public-proxy
ReadProxies ==
    /\ px.pc = "args"
    /\ LET set == ProxySetup(px.proxy, px.proxy_file, px.public_proxy, px.public)
       IN  px' = [px EXCEPT !.pc = "set", !.proxy_cfg = set.proxy_cfg,
                            !.proxy_pool = set.proxy_pool]
    /\ UNCHANGED << cfg, wk, sem, banned, used, results, files, cc, segs, doc,
                    pr, fx, POOLS, pools, caller >>

NextProxies == ReadProxies

SpecProxies == InitProxies /\ [][NextProxies]_vars

\* ------------------ SpecFixup: one call of header._fixup_loop
\* body totals up to, and FixSpan past, the sizes at which a header total
\* gains a digit or a thousands separator
FixSpan == 30
MaxMetas == 2
FixChars == {base + d : base \in {0, 860, 9900, 999900}, d \in 0..FixSpan}

\* manifests: the (video id, title) pairs of the first items
FixMetas == {[i \in 1..n |-> << ItemVid(i), ItemTitle(i) >>] : n \in 0..MaxMetas}

InitFixup ==
    /\ \E w \in {0, 95, 990}, l \in {0, 6, 8, 96}, c \in FixChars, f \in {"text", "srt"},
          m \in FixMetas :
          fx = [pc |-> "called", body |-> << w, l, c >>, fmt |-> f, metas |-> m,
                hdr |-> << >>, W |-> 0, L |-> 0, C |-> 0, rounds |-> 0]
    /\ cfg = [mode |-> "fixup"]
    /\ wk = << >>
    /\ sem = 0
    /\ banned = {}
    /\ used = {}
    /\ results = << >>
    /\ files = << >>
    /\ cc = Idle
    /\ segs = << >>
    /\ doc = NoDoc
    /\ ProbeOff /\ ProxiesOff /\ PoolOff

\* _fixup_loop runs and returns (hdr, w, l, c)
FixupReturn ==
    /\ fx.pc = "called"
    /\ LET r == FixupLoop(fx.body, fx.fmt, fx.metas, Timestamp)
       IN  fx' = [fx EXCEPT !.pc = "returned", !.hdr = r[1], !.W = r[2], !.L = r[3],
                            !.C = r[4], !.rounds = r[5]]
    /\ UNCHANGED << cfg, wk, sem, banned, used, results, files, cc, segs, doc,
                    pr, px, POOLS, pools, caller >>

NextFixup == FixupReturn

SpecFixup == InitFixup /\ [][NextFixup]_vars

\* ------------------ SpecPool: coroutines of one event loop that share the
\* browser-context pools of site_downloader.pool
NumCallers == 3
MaxPoolSize == 2
Callers == 1..NumCallers

\* _ContextPool(engine=..., proxy=..., size=...) before start()
NewPool(key) == [key |-> key, size |-> key[3], started |-> FALSE, queue |-> << >>]

\* the contexts of pool p that a caller holds inside page()
InUse(p) == {t \in Callers : caller[t].pool = p /\ caller[t].pc \in {"newpage", "body", "closing"}}

\* each caller asks for an (engine, proxy, size) key
InitPool ==
    /\ \E want \in [Callers -> {<< "chromium", None, size >> : size \in 1..MaxPoolSize}] :
          caller = [t \in Callers |-> [pc |-> "idle", key |-> want[t], pool |-> 0, ctx |-> 0]]
    /\ POOLS = << >>
    /\ pools = << >>
    /\ cfg = [mode |-> "pool"]
    /\ wk = << >>
    /\ sem = 0
    /\ banned = {}
    /\ used = {}
    /\ results = << >>
    /\ files = << >>
    /\ cc = Idle
    /\ segs = << >>
    /\ doc = NoDoc
    /\ ProbeOff /\ ProxiesOff /\ FixupOff

\* get_pool up to its first suspension: a registered pool is returned at once,
\* else a pool is constructed and "await pool.start()" begins
GetPool(t) ==
    /\ caller[t].pc = "idle"
    /\ IF caller[t].key \in DOMAIN POOLS
       THEN /\ caller' = [caller EXCEPT ![t].pc = "have", ![t].pool = POOLS[caller[t].key]]
            /\ UNCHANGED pools
       ELSE /\ pools' = Append(pools, NewPool(caller[t].key))
            /\ caller' = [caller EXCEPT ![t].pc = "starting", ![t].pool = Len(pools) + 1]
    /\ UNCHANGED POOLS

\* "await pool.start()" completes: the browser runs and the queue is full;
\* "_POOLS[key] = pool; return _POOLS[key]"
Started(t) ==
    /\ caller[t].pc = "starting"
    /\ LET p == caller[t].pool
           key == caller[t].key
       IN  /\ pools' = [pools EXCEPT ![p].started = TRUE,
                                     ![p].queue = [k \in 1..pools[p].size |-> k]]
           /\ POOLS' = [k \in DOMAIN POOLS \cup {key} |-> IF k = key THEN p ELSE POOLS[k]]
           /\ caller' = [caller EXCEPT ![t].pc = "have", ![t].pool = p]

\* page(): "ctx = await self._queue.get()" returns once the queue holds a context
PageEnter(t) ==
    /\ caller[t].pc = "have"
    /\ LET p == caller[t].pool
       IN  /\ pools[p].queue # << >>
           /\ caller' = [caller EXCEPT ![t].pc = "newpage", ![t].ctx = Head(pools[p].queue)]
           /\ pools' = [pools EXCEPT ![p].queue = Tail(@)]
    /\ UNCHANGED POOLS

\* "page = await ctx.new_page()": the page is yielded to the block, or the call
\* raises and the finally clause fails on the unbound name "page" before it
\* reaches the put
NewPage(t) ==
    /\ caller[t].pc = "newpage"
    /\ \E ok \in BOOLEAN :
          caller' = [caller EXCEPT ![t].pc = IF ok THEN "body" ELSE "left",
                               ![t].ctx = IF ok THEN @ ELSE 0]
    /\ UNCHANGED << POOLS, pools >>

\* the block under "async with pool.page()" is left, normally or by an
\* exception: the finally clause starts with "await page.close()"
BodyLeave(t) ==
    /\ caller[t].pc = "body"
    /\ caller' = [caller EXCEPT ![t].pc = "closing"]
    /\ UNCHANGED << POOLS, pools >>

\* "await page.close()" returns and "await self._queue.put(ctx)" follows, or
\* it raises and the generator is left without the put
PageClose(t) ==
    /\ caller[t].pc = "closing"
    /\ \E ok \in BOOLEAN :
          /\ caller' = [caller EXCEPT ![t].pc = "left", ![t].ctx = 0]
          /\ pools' = IF ok THEN [pools EXCEPT ![caller[t].pool].queue = Append(@, caller[t].ctx)]
                      ELSE pools
    /\ UNCHANGED POOLS

NextPool ==
    /\ \E t \in Callers :
          \/ GetPool(t) \/ Started(t)
          \/ PageEnter(t) \/ NewPage(t) \/ BodyLeave(t) \/ PageClose(t)
    /\ UNCHANGED << cfg, wk, sem, banned, used, results, files, cc, segs, doc, pr, px, fx >>

SpecPool == InitPool /\ [][NextPool]_vars

\* ------------------ SpecInterrupt: runs that the operator may interrupt
\* SIGINT between two statements of _main or while it awaits: _sigint raises
\* KeyboardInterrupt, main() prints and calls sys.exit(130): no coroutine
\* runs any further, and files that are open keep what was written to them
Interrupt ==
    /\ cfg.mode = "run" /\ cc.exit = << >> /\ ~Raised
    /\ cc' = [cc EXCEPT !.pc = "interrupted", !.exit = << 130 >>]
    /\ UNCHANGED << cfg, wk, sem, banned, used, results, files, segs, doc, aside >>

\* SIGINT while path.write_text of worker i is writing: the path was opened
\* (created or truncated) and holds what had reached it
InterruptInWrite(i) ==
    /\ cfg.mode = "run" /\ cc.exit = << >> /\ ~Raised
    /\ wk[i].pc = "fetch" /\ "ok" \in cfg.env
    /\ \E part \in PartialWrites(GrabDocument(cfg.fmt, cfg.stats /\ ~cfg.concat, ItemTr(i),
                                    ItemData(i), Meta(ItemVid(i), ItemTitle(i), ItemLangs),
                                    Timestamp)) :
          files' = [files EXCEPT ![i] = [n |-> @.n + 1, text |-> part]]
    /\ cc' = [cc EXCEPT !.pc = "interrupted", !.exit = << 130 >>]
    /\ UNCHANGED << cfg, wk, sem, banned, used, results, segs, doc, aside >>

\* SIGINT while _prepend_header rewrites the last segment after the merge
\* loop: write_text has truncated the file and written part of hdr + txt
InterruptInPrepend ==
    /\ AllReturned /\ cfg.concat /\ cfg.stats /\ cfg.fmt # "json"
    /\ cc.pc = "loop" /\ cc.idx > Len(ConcatOrder) /\ cc.exit = << >>
    /\ \E part \in PartialWrites(SegText(CloseSeg(segs[Len(segs)], cc.tot, cc.meta_list))) :
          segs' = [segs EXCEPT ![Len(segs)] =
                      [@ EXCEPT !.closed = TRUE,
                                !.chunks = << Chunk("partial", << >>, part) >>]]
    /\ cc' = [cc EXCEPT !.pc = "interrupted", !.exit = << 130 >>]
    /\ UNCHANGED << cfg, wk, sem, banned, used, results, files, doc, aside >>

InitInterrupt ==
    /\ \E n \in 1..GrabItems, j \in 1..MaxJobs, f \in ConcatFormats, s \in BOOLEAN,
          sp \in Splits, c \in BOOLEAN :
          /\ (~c => sp[1] = 0)
          /\ cfg = [mode |-> "run", n |-> n, identity |-> "direct", jobs |-> j,
                    delay |-> FALSE, tries |-> DefaultTries, fmt |-> f, stats |-> s,
                    concat |-> c, split_limit |-> sp[1], split_unit |-> sp[2],
                    existing |-> {}, env |-> {"ok", "nocaption"}]
    /\ wk = Tasks(cfg.n, cfg.existing, cfg.concat)
    /\ sem = cfg.jobs
    /\ banned = {}
    /\ used = {}
    /\ results = << >>
    /\ files = [i \in Items |-> NoFile]
    /\ cc = Idle
    /\ segs = << >>
    /\ doc = NoDoc
    /\ ProbeOff /\ ProxiesOff /\ FixupOff /\ PoolOff

NextInterrupt ==
    \/ NextConcat
    \/ Interrupt
    \/ \E i \in 1..cfg.n : InterruptInWrite(i)
    \/ InterruptInPrepend

SpecInterrupt == InitInterrupt /\ [][NextInterrupt]_vars

\* ---------------- properties
RunItems == IF cfg.mode = "run" THEN 1..cfg.n ELSE {}

\* C1: ban monotonicity under every interleaving of the workers: an endpoint
\* in banned stays in banned, and no worker starts a fetch through an endpoint
\* that is in banned at that moment
BanMonotonicity ==
    [][ /\ banned \subseteq banned'
        /\ \A i \in RunItems :
              wk'[i].calls > wk[i].calls =>
                  wk'[i].addr \notin banned /\ wk'[i].addr \notin banned' ]_vars

\* a worker whose first attempt was throttled (its endpoint is banned) is
\* fetching again through another pool endpoint while a sibling is fetching
BanMonotonicityWitness ==
    \E i, j \in RunItems :
        /\ i # j
        /\ wk[i].pc = "fetch"
        /\ wk[j].pc = "fetch" /\ wk[j].attempt >= 2 /\ wk[j].onlyThrottled
        /\ banned # {}
        /\ wk[j].addr \in PoolGet \ banned

RECURSIVE ChunkItems(_, _)
\* the items of the chunks of the given kinds, in the order written
ChunkItems(chunks, kinds) ==
    IF Len(chunks) = 0 THEN << >>
    ELSE (IF Head(chunks).kind \in kinds THEN Head(chunks).items ELSE << >>)
             \o ChunkItems(Tail(chunks), kinds)

RECURSIVE Merged(_, _)
\* the items of all segments, segments taken in segment-number order
Merged(ss, kinds) ==
    IF Len(ss) = 0 THEN << >> ELSE ChunkItems(Head(ss).chunks, kinds) \o Merged(Tail(ss), kinds)

\* the enumerator's order restricted to the items of a sequence
Ascending(s) == \A p, q \in 1..Len(s) : p < q => s[p] < s[q]

\* C2: in a concatenating run the item bodies, and the separators, of the
\* merged output (segments in segment-number order) follow the enumerator's
\* order whatever order the fetches completed in; a finished merge holds
\* every ok item
ConcatOrderPreserved ==
    (cfg.mode = "run" /\ cfg.concat) =>
        /\ Ascending(Merged(segs, {"body", "json"}))
        /\ Ascending(Merged(segs, {"sep"}))
        /\ cc.pc = "done" =>
              Ok \subseteq {Merged(segs, {"body", "json"})[k] :
                               k \in 1..Len(Merged(segs, {"body", "json"}))}

\* three fetches completed out of enumeration order and were merged into
\* more than one segment
ConcatOrderWitness ==
    /\ cfg.mode = "run" /\ cfg.concat /\ cc.pc = "done"
    /\ Len(results) >= 3 /\ results[1][2] > results[2][2]
    /\ Len(segs) >= 2
    /\ SubSeq(Merged(segs, {"body", "json"}), 1, 3) = << 1, 2, 3 >>

\* C3: a non-JSON per-item document written with stats enabled declares in
\* its header the triple that stats() computes for the whole text written
HeaderSelfConsistent ==
    (doc.pc = "written" /\ doc.fmt # "json" /\ doc.include_stats)
        => DeclaredHeader(doc.text) = stats(doc.text)

\* a subtitle document whose character total needs a thousands separator
HeaderSelfConsistentWitness ==
    /\ doc.pc = "written" /\ doc.fmt = "srt" /\ doc.include_stats
    /\ Len(doc.data) > 800
    /\ DeclaredHeader(doc.text)[3] >= 1000
    /\ stats(doc.text)[3] = Len(doc.text)

\* C4: with stats enabled every closed segment of a concatenated non-JSON
\* output declares in its header the triple stats() computes for the whole
\* segment file: header, separators and bodies
SegmentHeaderSelfConsistent ==
    (cfg.mode = "run" /\ cfg.concat /\ cfg.stats /\ cfg.fmt # "json") =>
        \A k \in 1..Len(segs) :
            segs[k].closed => DeclaredHeader(SegText(segs[k])) = stats(SegText(segs[k]))

\* C5: a per-item JSON document written with stats enabled ends with a
\* newline and its stats object equals stats() of the text written
JsonSelfConsistent ==
    (doc.pc = "written" /\ doc.fmt = "json" /\ doc.include_stats)
        => /\ doc.text[Len(doc.text)] = "\n"
           /\ DeclaredJson(doc.text) = stats(doc.text)

\* C6: with a split limit every closed segment of a concatenated non-JSON
\* output measures at most the limit in the chosen unit, header included,
\* unless it holds one item only and that item alone exceeds the limit
SplitCapRespected ==
    (cfg.mode = "run" /\ cfg.concat /\ cfg.fmt # "json" /\ cfg.split_limit # 0) =>
        \A k \in 1..Len(segs) :
            segs[k].closed =>
                \/ stats(SegText(segs[k]))[UnitIndex(cfg.split_unit)] <= cfg.split_limit
                \/ LET held == ChunkItems(segs[k].chunks, {"body"})
                   IN  /\ Len(held) = 1
                       /\ stats(FileText(held[1]))[UnitIndex(cfg.split_unit)]
                              > cfg.split_limit

\* C7: a worker that begins an attempt while every endpoint the pool can
\* supply is banned returns proxy_fail in that step, without a network call
ExhaustedPoolFailsAtOnce ==
    [][ \A i \in RunItems :
          ( /\ cfg.identity = "pool"
            /\ PoolGet \subseteq banned
            /\ \/ wk[i].pc = "queued" /\ wk'[i].pc # "queued"
               \/ wk[i].pc = "backoff" /\ wk[i].attempt < cfg.tries /\ wk'[i].pc # "backoff" )
          => ( /\ wk'[i].pc = "done"
               /\ wk'[i].result = "proxy_fail"
               /\ wk'[i].calls = wk[i].calls ) ]_vars

\* a worker admitted after its siblings banned the whole pool has returned
\* proxy_fail without any network call
ExhaustedPoolWitness ==
    \E i \in RunItems :
        /\ cfg.identity = "pool" /\ PoolGet \subseteq banned
        /\ wk[i].pc = "done" /\ wk[i].result = "proxy_fail"
        /\ wk[i].calls = 0 /\ wk[i].attempt = 1

\* C8: after an "item unavailable" outcome the worker has returned fail and
\* made no further call; on attempt 1 of a 6-try budget that is one call
UnavailableIsTerminal ==
    \A i \in RunItems :
        wk[i].last = "unavailable" =>
            /\ wk[i].pc = "done" /\ wk[i].result = "fail"
            /\ wk[i].calls = wk[i].attempt
            /\ (wk[i].attempt = 1 /\ cfg.tries = 6 => wk[i].calls = 1)

UnavailableWitness ==
    \E i \in RunItems :
        /\ wk[i].last = "unavailable" /\ wk[i].attempt = 1 /\ cfg.tries = 6
        /\ wk[i].pc = "done" /\ wk[i].calls = 1

RetryThenOk ==
    \A i \in RunItems :
        /\ (wk[i].pc = "backoff" /\ wk[i].last = Throttled)
              => wk[i].wait = 60 * wk[i].attempt
        /\ (wk[i].last = "ok" /\ wk[i].onlyThrottled)
              => /\ wk[i].pc \in {"delay", "done"} /\ wk[i].result = "ok"
                 /\ files[i].n = 1
                 /\ wk[i].calls = wk[i].attempt

RetryThenOkWitness ==
    \E i \in RunItems :
        /\ wk[i].last = "ok" /\ wk[i].onlyThrottled /\ wk[i].attempt = 3
        /\ wk[i].pc = "done" /\ wk[i].result = "ok" /\ wk[i].calls = 3
        /\ files[i].n = 1

\* a worker that has left its attempt loop with a result
Returning(i) == wk[i].pc \in {"delay", "done"}

\* C11: without a proxy pool, a worker whose every attempt was rate-limited
\* (or IP-blocked, or could not retrieve) returns proxy_fail after exactly
\* tries network calls
AllThrottledExhausts ==
    \A i \in RunItems :
        (cfg.identity # "pool" /\ Returning(i) /\ wk[i].last = Throttled /\ wk[i].onlyThrottled)
            => /\ wk[i].result = "proxy_fail"
               /\ wk[i].calls = cfg.tries
               /\ wk[i].attempt = cfg.tries

\* a direct worker with the 6-try budget was throttled six times
AllThrottledWitness ==
    \E i \in RunItems :
        /\ cfg.identity = "direct" /\ cfg.tries = DefaultTries
        /\ wk[i].pc = "done" /\ wk[i].last = Throttled /\ wk[i].onlyThrottled
        /\ wk[i].result = "proxy_fail" /\ wk[i].calls = DefaultTries

\* C12: a worker that returns ok has written its target path exactly once; a
\* worker that returns none, fail or proxy_fail has never opened it for writing
WriteOnlyOnOk ==
    \A i \in RunItems :
        Returning(i) =>
            /\ wk[i].result = "ok" => files[i].n = 1
            /\ wk[i].result \in {"none", "fail", "proxy_fail"} => files[i].n = 0

\* C13: every result the scheduler receives from a grab coroutine is a
\* (status, vid, title) value; no exception leaves grab
NoExceptionEscapes ==
    \A k \in 1..Len(results) : results[k][1] \in {"ok", "none", "fail", "proxy_fail"}

\* the scheduler holds a result value of item i
Collected(i) ==
    \/ wk[i].pc = "skipped"
    \/ \E k \in 1..Len(results) :
          results[k][2] = i /\ results[k][1] \in {"ok", "none", "fail", "proxy_fail"}

\* C14: whatever happens to its siblings, every scheduled item whose own
\* worker raises nothing eventually has its result collected by the scheduler
SiblingsComplete ==
    \A i \in Items : <>(i \notin RunItems \/ Collected(i) \/ wk[i].result = "raised")

\* workers inside "async with sem": admitted and not yet returned
Inside == {i \in RunItems : wk[i].pc \in {"fetch", "backoff", "delay"}}

\* C15: at every instant at most --jobs workers are inside the gate, and the
\* semaphore value accounts for each of them
GateBound ==
    cfg.mode = "run" =>
        /\ Cardinality(Inside) <= cfg.jobs
        /\ sem >= 0
        /\ sem + Cardinality(Inside) = cfg.jobs

\* with --jobs 1 one worker sleeps in its back-off inside the gate while its
\* sibling is still waiting to be admitted
GateBoundWitness ==
    /\ cfg.mode = "run" /\ cfg.jobs = 1 /\ sem = 0
    /\ \E i, j \in RunItems :
          /\ wk[i].pc = "backoff" /\ wk[i].attempt >= 2
          /\ wk[j].pc = "queued"

\* C16: the exit code is non-zero exactly when some result is fail or
\* proxy_fail
ExitCodeReflectsFailures ==
    (cfg.mode = "run" /\ cc.exit # << >>) =>
        (cc.exit[1] # 0 <=>
            \E k \in 1..Len(results) : results[k][1] \in {"fail", "proxy_fail"})

\* C17: without --concat an item whose path exists is reported ok and its
\* worker is never invoked; with --concat every enumerated item has a worker,
\* which has run once all have returned
ExistingPathsSkipped ==
    \A i \in RunItems :
        /\ (i \in cfg.existing /\ ~cfg.concat) =>
              /\ wk[i].pc = "skipped" /\ wk[i].attempt = 0 /\ wk[i].calls = 0
              /\ i \in Ok
        /\ (i \notin cfg.existing \/ cfg.concat) => wk[i].pc # "skipped"
        /\ (cfg.concat /\ AllReturned) => wk[i].attempt >= 1 /\ wk[i].calls >= 1

\* a run without --concat has exited: one item was skipped because its path
\* existed, another was fetched
ExistingPathsWitness ==
    /\ cfg.mode = "run" /\ ~cfg.concat /\ cc.exit = << 0 >>
    /\ \E i, j \in RunItems :
          /\ i \in cfg.existing /\ wk[i].pc = "skipped" /\ wk[i].calls = 0 /\ i \in Ok
          /\ j \notin cfg.existing /\ wk[j].pc = "done" /\ wk[j].calls = 1

\* the number of times item i occurs in a sequence of items
Count(s, i) == Cardinality({p \in 1..Len(s) : s[p] = i})

\* C18: once a concatenating run has ended, the segments hold every ok item
\* exactly once, with the text of its file as body, and no other item
OkItemsMergedOnce ==
    (cfg.mode = "run" /\ cfg.concat /\ cc.exit # << >> /\ Ok # {}) =>
        /\ \A i \in RunItems :
              Count(Merged(segs, {"body", "json"}), i) = IF i \in Ok THEN 1 ELSE 0
        /\ \A k \in 1..Len(segs) : \A c \in 1..Len(segs[k].chunks) :
              segs[k].chunks[c].kind = "body" =>
                  segs[k].chunks[c].text = FileText(segs[k].chunks[c].items[1])

\* C19: with stats enabled the top-level stats object of every concatenated
\* JSON file equals stats() of the text written to that file
ContainerStatsSelfConsistent ==
    (cfg.mode = "run" /\ cfg.concat /\ cfg.stats /\ cfg.fmt = "json") =>
        \A k \in 1..Len(segs) :
            DeclaredJson(SegText(segs[k])) = stats(SegText(segs[k]))

\* a split JSON merge is finished: two files, one of them with two items
ContainerStatsWitness ==
    /\ cfg.mode = "run" /\ cfg.concat /\ cfg.stats /\ cfg.fmt = "json"
    /\ cc.pc = "done" /\ Len(segs) >= 2
    /\ \E k \in 1..Len(segs) :
          /\ Len(segs[k].chunks[1].items) >= 2
          /\ DeclaredJson(SegText(segs[k]))[3] = Len(SegText(segs[k]))

\* C20: with a character limit every concatenated JSON file has at most
\* limit characters, unless it holds one item whose file alone exceeds it
JsonSplitCapRespected ==
    (cfg.mode = "run" /\ cfg.concat /\ cfg.fmt = "json"
         /\ cfg.split_limit # 0 /\ cfg.split_unit = "c") =>
        \A k \in 1..Len(segs) :
            \/ Len(SegText(segs[k])) <= cfg.split_limit
            \/ LET held == segs[k].chunks[1].items
               IN  Len(held) = 1 /\ Len(FileText(held[1])) > cfg.split_limit

\* C21: every fetch in flight goes through the identity chosen for its
\* attempt: the acquired pool endpoint, else the configured proxy, else direct
FetchThroughChosenIdentity ==
    cfg.mode = "run" =>
        \A i \in RunItems :
            wk[i].pc = "fetch" => Transport(wk[i].proxy) = Label(wk[i].addr, wk[i].proxy)

\* C22: with a pool whose get() returns no endpoint, a worker makes no network
\* call and returns proxy_fail
ExhaustedGetFailsWithoutCall ==
    (cfg.mode = "run" /\ cfg.identity = "exhausted") =>
        \A i \in RunItems :
            /\ wk[i].calls = 0
            /\ wk[i].pc = "done" => wk[i].result = "proxy_fail"

\* the step returns proxy_fail for item i from the top of an attempt, before
\* any fetch of that attempt
LackOfProxy(i) ==
    /\ \/ wk[i].pc = "queued"
       \/ wk[i].pc = "backoff" /\ MoreAttempts(wk[i].attempt)
    /\ wk'[i].pc = "done" /\ wk'[i].result = "proxy_fail"

\* C29: an attempt ends in proxy_fail for lack of a proxy only if every
\* endpoint of the pool is banned
ProxyFailOnlyWhenPoolBanned ==
    [][cfg.mode = "run" =>
          \A i \in RunItems : LackOfProxy(i) => PoolGet \subseteq banned]_vars


\* C30: after an exception that is neither a no-caption, an item-unavailable
\* nor a throttling error, the worker sleeps 0.5 x attempt seconds before the
\* next attempt, and on the last attempt has banned the proxy used and
\* returns proxy_fail
OtherExceptionRetries ==
    cfg.mode = "run" =>
        \A i \in RunItems :
            wk[i].last \in {"typeerror", "reqexc", "other", "writeerr"} =>
                /\ wk[i].pc = "backoff" => wk[i].wait = OtherWait(wk[i].attempt)
                /\ wk[i].pc \in {"delay", "done"} =>
                      /\ wk[i].result = "proxy_fail"
                      /\ wk[i].attempt = cfg.tries
                      /\ wk[i].addr # None => wk[i].addr \in banned

\* C23: when the preflight probe reports ok = false the run has exited with
\* a non-zero code, no worker was created or invoked and no file was written
ProbeFailureAborts ==
    (pr.pc = "returned" /\ ~pr.ok) =>
        /\ cc.exit # << >> /\ cc.exit[1] # 0
        /\ results = << >>
        /\ \A i \in Items :
              wk[i].pc = "unbuilt" /\ wk[i].calls = 0 /\ files[i] = NoFile

\* the probe failed on a third rate-limited fetch
ProbeFailureWitness ==
    /\ pr.pc = "returned" /\ ~pr.ok /\ pr.attempt = ProbeTries /\ pr.last = Throttled
    /\ cc.exit = << 2 >>

\* C24: the probe has returned ok = true once a fetch succeeded or failed with
\* an error outside the rate-limit / IP-block family
ProbePassesOnNonBlock ==
    pr.pc # "off" =>
        (pr.last \notin {"none", Throttled} => pr.pc = "returned" /\ pr.ok)

\* C25: the fixed-point header loop returns within 10 rounds, and the header
\* it returns declares the triple returned with it, which is stats(header)
\* plus the body triple
FixupTerminatesConsistent ==
    fx.pc = "returned" =>
        LET h == stats(fx.hdr)
        IN  /\ fx.rounds <= HeaderRounds
            /\ DeclaredHeader(fx.hdr) = << fx.W, fx.L, fx.C >>
            /\ << fx.W, fx.L, fx.C >> =
                   << fx.body[1] + h[1], fx.body[2] + h[2], fx.body[3] + h[3] >>

\* a call with a manifest that needed four rounds: the character total gained
\* a separator after the word and line totals had grown
FixupWitness ==
    /\ fx.pc = "returned" /\ fx.rounds >= 4 /\ Len(fx.metas) > 0
    /\ fx.body[3] < 1000 /\ fx.C >= 1000

\* C27: for every started pool the contexts on its queue and the contexts in
\* use inside page() are its size together, whatever way the blocks were left
ContextsConserved ==
    cfg.mode = "pool" =>
        \A p \in 1..Len(pools) :
            pools[p].started =>
                Len(pools[p].queue) + Cardinality(InUse(p)) = pools[p].size

\* C28: at most one pool is constructed and started per key, and every caller
\* that asked with a key holds the pool registered for it
OnePoolPerKey ==
    cfg.mode = "pool" =>
        /\ \A p, q \in 1..Len(pools) : pools[p].key = pools[q].key => p = q
        /\ \A t \in Callers :
              caller[t].pc \notin {"idle", "starting"} =>
                  caller[t].pool = POOLS[caller[t].key]

\* the endpoints the run can draw on: the pool, else the single proxy
PoolHeld ==
    IF px.proxy_pool # None THEN px.proxy_pool
    ELSE IF px.proxy_cfg # None THEN << px.proxy_cfg >> ELSE << >>

\* C26: the pool holds the command-line endpoints, then the file endpoints,
\* then the public endpoints, each once at the place of its first occurrence
PoolIsOrderedUnion ==
    px.pc = "set" =>
        LET sources == Stripped(px.proxy) \o Stripped(px.proxy_file) \o px.public
            first(x) == CHOOSE k \in 1..Len(sources) :
                            sources[k] = x /\ \A j \in 1..(k - 1) : sources[j] # x
        IN  /\ {PoolHeld[k] : k \in 1..Len(PoolHeld)} = {sources[k] : k \in 1..Len(sources)}
            /\ \A a, b \in 1..Len(PoolHeld) :
                  a < b => first(PoolHeld[a]) < first(PoolHeld[b])

\* C31: the probe has its candidate (or "direct") in the banned set only
\* when all its attempts failed; a candidate through which a fetch succeeded
\* is not in the set the probe returns
ProbeBansOnlyAfterAllFailed ==
    (pr.pc # "off" /\ (IF pr.addr # None THEN pr.addr ELSE Direct) \in pr.banned) =>
        pr.pc = "returned" /\ ~pr.ok /\ pr.attempt = ProbeTries

\* the items whose body a segment holds
Bodies(seg) ==
    {c \in 1..Len(seg.chunks) : seg.chunks[c].kind \in {"body", "json"}
                                  /\ seg.chunks[c].items # << >>}

\* C32: a rollover happens only on an accumulator that holds an item: every
\* finished segment holds at least one item, and every item body written to
\* a non-JSON segment is the whole file of that item
NoEmptySegment ==
    (cfg.mode = "run" /\ cfg.concat) =>
        \A k \in 1..Len(segs) :
            /\ (segs[k].closed \/ k < Len(segs)) => Bodies(segs[k]) # {}
            /\ \A c \in 1..Len(segs[k].chunks) :
                  segs[k].chunks[c].kind = "body" =>
                      segs[k].chunks[c].text = FileText(segs[k].chunks[c].items[1])

\* a finished split merge in which an item that is over the word limit by
\* itself has a segment of its own
NoEmptySegmentWitness ==
    /\ cfg.mode = "run" /\ cfg.concat /\ cfg.fmt = "text" /\ cc.pc = "done"
    /\ cfg.split_limit = TightWords /\ Len(segs) >= 2
    /\ \E k \in 1..Len(segs) :
          /\ Cardinality(Bodies(segs[k])) = 1
          /\ \E c \in Bodies(segs[k]) : stats(segs[k].chunks[c].text)[1] > cfg.split_limit

\* C33: in a non-JSON segment every item body is directly preceded, in the
\* same segment, by the separator line of that item
SeparatorWithBody ==
    (cfg.mode = "run" /\ cfg.concat /\ cfg.fmt # "json") =>
        \A k \in 1..Len(segs) :
            \A c \in 1..Len(segs[k].chunks) :
                segs[k].chunks[c].kind = "body" =>
                    /\ c > 1
                    /\ segs[k].chunks[c - 1].kind = "sep"
                    /\ segs[k].chunks[c - 1].items = segs[k].chunks[c].items

\* C34: with stats a non-JSON segment has no header while it is open and
\* exactly one once it is finished, every segment is finished when the merge
\* is done, and a finished segment file is never written again
HeaderOnceAtClose ==
    [][(cfg.mode = "run" /\ cfg.concat /\ cfg.stats /\ cfg.fmt # "json") =>
          /\ \A k \in 1..Len(segs') :
                segs'[k].heads = IF segs'[k].closed THEN 1 ELSE 0
          /\ \A k \in 1..Len(segs) :
                segs[k].closed => Len(segs') >= k /\ segs'[k] = segs[k]
          /\ cc'.pc = "done" => \A k \in 1..Len(segs') : segs'[k].closed]_vars

\* a finished merge with stats that rolled over: each segment starts with
\* its one header
HeaderOnceWitness ==
    /\ cfg.mode = "run" /\ cfg.concat /\ cfg.stats /\ cfg.fmt = "text"
    /\ cc.pc = "done" /\ Len(segs) >= 2
    /\ \A k \in 1..Len(segs) :
          segs[k].heads = 1 /\ DeclaredHeader(SegText(segs[k])) # << >>

\* C35: a worker never starts more than tries attempts or network calls,
\* and when it has ended it holds one of the four results
GrabEndsWithinTries ==
    \A i \in RunItems :
        /\ wk[i].attempt <= cfg.tries /\ wk[i].calls <= cfg.tries
        /\ wk[i].pc = "done" => wk[i].result \in {"ok", "none", "fail", "proxy_fail"}

UsedGrowsBeforeFetch ==
    [][cfg.mode = "run" =>
          /\ used \subseteq used'
          /\ \A i \in RunItems :
                (wk'[i].pc = "fetch" /\ wk'[i] # wk[i]) =>
                    Label(wk'[i].addr, wk'[i].proxy) \in used'
          /\ (banned' \ banned) \subseteq used]_vars

\* a pool endpoint was used and banned, and a later attempt of the same
\* worker is fetching through another endpoint
UsedGrowsWitness ==
    /\ cfg.mode = "run" /\ cfg.identity = "pool"
    /\ \E i \in RunItems :
          /\ wk[i].pc = "fetch" /\ wk[i].attempt >= 2
          /\ wk[i].addr \in used \ banned
          /\ banned # {} /\ banned \subseteq used

\* C38: every per-item and container stats loop run when a concatenated
\* JSON file is flushed is left, at a fixed point of its comparison, before
\* StatsFuel rounds have run
StatsLoopsSettle ==
    (cfg.mode = "run" /\ cfg.concat /\ cfg.fmt = "json") =>
        \A k \in 1..Len(segs) :
            /\ Len(segs[k].loops) =
                   Len(segs[k].chunks[1].items) + (IF cfg.stats THEN 1 ELSE 0)
            /\ \A l \in 1..Len(segs[k].loops) :
                  segs[k].loops[l].settled /\ segs[k].loops[l].rounds < StatsFuel

\* a flushed file of two items with stats: the loops of both items and of
\* the container each needed three rounds or more
StatsLoopsWitness ==
    /\ cfg.mode = "run" /\ cfg.concat /\ cfg.stats /\ cfg.fmt = "json"
    /\ \E k \in 1..Len(segs) :
          /\ Len(segs[k].chunks[1].items) >= 2
          /\ Len(segs[k].loops) >= 3
          /\ \A l \in 1..Len(segs[k].loops) : segs[k].loops[l].rounds >= 3

\* C39: after an interrupt every per-item path is absent or holds the
\* complete document, and every concatenated file is complete: closed, made
\* of whole separators and bodies, and with stats starting with its header
NoPartialOutput ==
    cc.pc = "interrupted" =>
        /\ \A i \in 1..cfg.n :
              \/ files[i].n = 0
              \/ files[i].text =
                     GrabDocument(cfg.fmt, cfg.stats /\ ~cfg.concat, ItemTr(i), ItemData(i),
                                  Meta(ItemVid(i), ItemTitle(i), ItemLangs), Timestamp)
        /\ \A k \in 1..Len(segs) :
              /\ segs[k].closed
              /\ \A c \in 1..Len(segs[k].chunks) : segs[k].chunks[c].kind # "partial"
              /\ (cfg.stats /\ cfg.fmt # "json") => segs[k].heads = 1

\* ------------------ SpecGrabLive: SpecGrab where a step that stays possible is
\* eventually taken (the event loop runs every ready coroutine)
SpecGrabLive == SpecGrab /\ WF_vars(NextGrab)
====
